---- MODULE Spec2Model ----
(***************************************************************************)
(* Block decoders of the DDS codec (src/codecs/dds/bc.rs): BC1, BC2, BC3,  *)
(* BC4 (UNORM/SNORM), BC5 (UNORM/SNORM) and the BC7 stub.  Each decoder is *)
(* a pure function from a fixed-size byte block to 16 pixels; the state    *)
(* machine draws a block, and one action per decoder applies it.           *)
(*                                                                         *)
(* Sequences are 1-based: byte i of the source is block_bytes[i + 1],      *)
(* pixel k of the source is pixels[k + 1], channel c is pixel[c + 1].      *)
(***************************************************************************)
EXTENDS Integers, Sequences, FiniteSets, TLC

VARIABLES block, overflow_checks, fmt, pc, pixels

vars == <<block, overflow_checks, fmt, pc, pixels>>

(***************************************************************************)
(* Machine integers.                                                       *)
(***************************************************************************)
U8Max == 255

U16Max == 65535

U8 == 0..U8Max

\* `x as u8` of an integer: truncation to the low 8 bits.
as_u8(x) == x % (U8Max + 1)

\* The value a u16 operation leaves when overflow checks are off.
wrap_u16(x) == x % (U16Max + 1)

\* u8::wrapping_add
wrapping_add_u8(a, b) == (a + b) % (U8Max + 1)

\* u8::saturating_sub
saturating_sub_u8(a, b) == IF a > b THEN a - b ELSE 0

\* u16::from_le_bytes
u16_from_le_bytes(b0, b1) == b0 + 256 * b1

\* u32::from_le_bytes, kept as two 16-bit limbs (lo, hi): the value is
\* lo + 65536 * hi.
u32_from_le_bytes(b0, b1, b2, b3) ==
    [lo |-> b0 + 256 * b1, hi |-> b2 + 256 * b3]

\* (x >> s) & mask for a u32 x, 0 <= s < 32, mask = 2^w - 1 with w <= 16.
u32_shr_and(x, s, mask) ==
    IF s < 16
    THEN ((x.lo \div (2 ^ s)) + (x.hi % (2 ^ s)) * (2 ^ (16 - s))) % (mask + 1)
    ELSE (x.hi \div (2 ^ (s - 16))) % (mask + 1)

\* The bytes i..j-1 of a block (block_bytes[i..j]).
slice(block_bytes, i, j) == SubSeq(block_bytes, i + 1, j)

(***************************************************************************)
(* Helpers of codecs/dds/convert.rs.                                       *)
(***************************************************************************)
\* 4 bits to 8 bits by bit replication.
x4_to_x8(a4) == a4 * 16 + a4

\* 5 bits to 8 bits by bit replication.
x5_to_x8(x) == x * 8 + x \div 4

\* 6 bits to 8 bits by bit replication.
x6_to_x8(x) == x * 4 + x \div 16

\* Signed-normalized byte to unsigned: round((clamp(s,-127,127)+127)*255/254).
snorm8_to_unorm8(x) ==
    LET y == saturating_sub_u8(wrapping_add_u8(x, 128), 1)
    IN  (y * 255 + 127) \div 254

\* B5G6R5::from_u16: red in the top 5 bits, green in the middle 6, blue in
\* the low 5.
B5G6R5_from_u16(u) ==
    [r5 |-> u \div 2048, g6 |-> (u \div 32) % 64, b5 |-> u % 32]

\* B5G6R5::to_rgba8
to_rgba8(c) == <<x5_to_x8(c.r5), x6_to_x8(c.g6), x5_to_x8(c.b5), 255>>

\* round(a * (1 - num/den) + b * num/den), half up.
lerp_round(a, b, num, den) ==
    (2 * (a * (den - num) + b * num) + den) \div (2 * den)

\* B5G6R5::blend_rgba8 with blend = num/den: the expanded channels blended
\* linearly, alpha at full opacity.
blend_rgba8(c, other, num, den) ==
    <<lerp_round(x5_to_x8(c.r5), x5_to_x8(other.r5), num, den),
      lerp_round(x6_to_x8(c.g6), x6_to_x8(other.g6), num, den),
      lerp_round(x5_to_x8(c.b5), x5_to_x8(other.b5), num, den),
      255>>

(***************************************************************************)
(* BC1.                                                                    *)
(***************************************************************************)
\* Faulty variant of bc1_lut: the mode test is color0 >= color1.
bc1_lut_ge(block_bytes) ==
    LET color0_u16 == u16_from_le_bytes(block_bytes[1], block_bytes[2])
        color1_u16 == u16_from_le_bytes(block_bytes[3], block_bytes[4])
        c0_bgr == B5G6R5_from_u16(color0_u16)
        c1_bgr == B5G6R5_from_u16(color1_u16)
    IN  IF color0_u16 >= color1_u16
        THEN <<to_rgba8(c0_bgr), to_rgba8(c1_bgr),
               blend_rgba8(c0_bgr, c1_bgr, 1, 3),
               blend_rgba8(c0_bgr, c1_bgr, 2, 3)>>
        ELSE <<to_rgba8(c0_bgr), to_rgba8(c1_bgr),
               blend_rgba8(c0_bgr, c1_bgr, 1, 2),
               <<0, 0, 0, 0>>>>

\* The palette [c0, c1, c2, c3] of a BC1 block.
bc1_lut(block_bytes) ==
    LET color0_u16 == u16_from_le_bytes(block_bytes[1], block_bytes[2])
        color1_u16 == u16_from_le_bytes(block_bytes[3], block_bytes[4])
        c0_bgr == B5G6R5_from_u16(color0_u16)
        c1_bgr == B5G6R5_from_u16(color1_u16)
    IN  IF color0_u16 > color1_u16
        THEN <<to_rgba8(c0_bgr), to_rgba8(c1_bgr),
               blend_rgba8(c0_bgr, c1_bgr, 1, 3),
               blend_rgba8(c0_bgr, c1_bgr, 2, 3)>>
        ELSE <<to_rgba8(c0_bgr), to_rgba8(c1_bgr),
               blend_rgba8(c0_bgr, c1_bgr, 1, 2),
               <<0, 0, 0, 0>>>>

\* Faulty variant of bc1_index: the index word is read big-endian.
bc1_index_be(block_bytes, i) ==
    LET indexes == u32_from_le_bytes(block_bytes[8], block_bytes[7],
                                     block_bytes[6], block_bytes[5])
    IN  u32_shr_and(indexes, i * 2, 3)

\* The palette index of pixel i (0-based) of a BC1 block.
bc1_index(block_bytes, i) ==
    LET indexes == u32_from_le_bytes(block_bytes[5], block_bytes[6],
                                     block_bytes[7], block_bytes[8])
    IN  u32_shr_and(indexes, i * 2, 3)

\* let lut = [c0, c1, c2, c3]
Bc1LutLen == 4

\* lut[index as usize] panics when the index is out of bounds.
bc1_panics(block_bytes) ==
    \E i \in 0..15 : bc1_index(block_bytes, i) >= Bc1LutLen

decode_bc1_block(block_bytes) ==
    LET lut == bc1_lut(block_bytes)
    IN  [k \in 1..16 |-> lut[bc1_index(block_bytes, k - 1) + 1]]

(***************************************************************************)
(* BC4 UNORM.                                                              *)
(***************************************************************************)
\* The u16 expression of `interpolate` before the division, evaluated
\* without a width: c0 * (d - f) * 2 + c1 * f * 2 + d, where d is 7 in the
\* 6-colour branch and 5 in the 4-colour branch.
bc4_unsigned_numerator(c0, c1, c1_factor, d) ==
    c0 * (d - c1_factor) * 2 + c1 * c1_factor * 2 + d

\* Faulty variant of bc4_unsigned_interpolate: the arithmetic is done in u8
\* (the `as u16` casts are missing).
bc4_unsigned_interpolate_u8(c0, c1, c1_factor, d) ==
    LET t1 == as_u8(as_u8(c0 * (d - c1_factor)) * 2)
        t2 == as_u8(as_u8(c1 * c1_factor) * 2)
        n  == as_u8(as_u8(t1 + t2) + d)
    IN  as_u8(n \div (2 * d))

\* Faulty variant of bc4_unsigned_interpolate: the rounding term is missing,
\* so the quotient is truncated.
bc4_unsigned_interpolate_trunc(c0, c1, c1_factor, d) ==
    LET t1 == wrap_u16(wrap_u16(c0 * (d - c1_factor)) * 2)
        t2 == wrap_u16(wrap_u16(c1 * c1_factor) * 2)
        n  == wrap_u16(t1 + t2)
    IN  as_u8(n \div (2 * d))

\* interpolate(c0, c1, c1_factor) of either branch, overflow checks off.
bc4_unsigned_interpolate(c0, c1, c1_factor, d) ==
    LET t1 == wrap_u16(wrap_u16(c0 * (d - c1_factor)) * 2)
        t2 == wrap_u16(wrap_u16(c1 * c1_factor) * 2)
        n  == wrap_u16(wrap_u16(t1 + t2) + d)
    IN  as_u8(n \div (2 * d))

\* The palette [c0, .., c7] of a BC4 UNORM block.
bc4_unsigned_lut(block_bytes) ==
    LET c0 == block_bytes[1]
        c1 == block_bytes[2]
    IN  IF c0 > c1
        THEN <<c0, c1,
               bc4_unsigned_interpolate(c0, c1, 1, 7),
               bc4_unsigned_interpolate(c0, c1, 2, 7),
               bc4_unsigned_interpolate(c0, c1, 3, 7),
               bc4_unsigned_interpolate(c0, c1, 4, 7),
               bc4_unsigned_interpolate(c0, c1, 5, 7),
               bc4_unsigned_interpolate(c0, c1, 6, 7)>>
        ELSE <<c0, c1,
               bc4_unsigned_interpolate(c0, c1, 1, 5),
               bc4_unsigned_interpolate(c0, c1, 2, 5),
               bc4_unsigned_interpolate(c0, c1, 3, 5),
               bc4_unsigned_interpolate(c0, c1, 4, 5),
               0, 255>>

\* Faulty variant of bc4_index: the second group starts one byte early.
bc4_index_early(block_bytes, i, j) ==
    LET indexes == IF i = 0
                   THEN u32_from_le_bytes(block_bytes[3], block_bytes[4],
                                          block_bytes[5], 0)
                   ELSE u32_from_le_bytes(block_bytes[5], block_bytes[6],
                                          block_bytes[7], 0)
    IN  u32_shr_and(indexes, j * 3, 7)

\* The palette index of pixel i * 8 + j of a BC4 block (both variants).
bc4_index(block_bytes, i, j) ==
    LET indexes == IF i = 0
                   THEN u32_from_le_bytes(block_bytes[3], block_bytes[4],
                                          block_bytes[5], 0)
                   ELSE u32_from_le_bytes(block_bytes[6], block_bytes[7],
                                          block_bytes[8], 0)
    IN  u32_shr_and(indexes, j * 3, 7)

\* let lut = [c0, c1, c2, c3, c4, c5, c6, c7]
Bc4LutLen == 8

\* With overflow checks on, a u16 operation of `interpolate` that overflows
\* panics; the operands are non-negative, so one does exactly when the whole
\* expression exceeds u16.
bc4_unsigned_overflows(block_bytes) ==
    LET c0 == block_bytes[1]
        c1 == block_bytes[2]
        d  == IF c0 > c1 THEN 7 ELSE 5
    IN  \E f \in 1..(d - 1) : bc4_unsigned_numerator(c0, c1, f, d) > U16Max

\* A panic of the call: an overflow under overflow checks, or lut[index as
\* usize] out of bounds.
bc4_unsigned_panics(block_bytes, checks) ==
    \/ checks /\ bc4_unsigned_overflows(block_bytes)
    \/ \E i \in 0..1, j \in 0..7 : bc4_index(block_bytes, i, j) >= Bc4LutLen

decode_bc4_unsigned_block(block_bytes) ==
    LET lut == bc4_unsigned_lut(block_bytes)
    IN  [k \in 1..16 |->
            <<lut[bc4_index(block_bytes, (k - 1) \div 8, (k - 1) % 8) + 1]>>]

(***************************************************************************)
(* f32 arithmetic (IEEE 754 binary32, round to nearest, ties to even) on   *)
(* the non-negative finite values the SNORM decoder computes.  A value is  *)
(* [m, e], standing for m * 2^e, with m = 0 or 2^23 <= m < 2^24.  Every    *)
(* intermediate of the operators stays below 2^31.                         *)
(***************************************************************************)
F32Hidden == 8388608

F32Limit == 16777216

F32Zero == [m |-> 0, e |-> 0]

\* m + rem/den (0 <= rem < den) times 2^e, rounded to 24 bits.
f32_round_pack(m, rem, den, e) ==
    LET up == 2 * rem > den \/ (2 * rem = den /\ m % 2 = 1)
        m2 == IF up THEN m + 1 ELSE m
    IN  IF m2 = F32Limit THEN [m |-> F32Hidden, e |-> e + 1]
                         ELSE [m |-> m2, e |-> e]

RECURSIVE f32_normalize(_, _)
\* The exact value m * 2^e, 0 < m < 2^24.
f32_normalize(m, e) ==
    IF m >= F32Hidden THEN [m |-> m, e |-> e] ELSE f32_normalize(2 * m, e - 1)

\* `n as f32` for an integer 0 <= n < 2^24.
f32_from_int(n) == IF n = 0 THEN F32Zero ELSE f32_normalize(n, 0)

RECURSIVE f32_long_div(_, _, _, _)
\* Long division: the quotient so far q, the remainder r < d, at scale 2^e.
f32_long_div(q, r, d, e) ==
    IF q >= F32Hidden
    THEN f32_round_pack(q, r, d, e)
    ELSE IF 2 * r >= d
         THEN f32_long_div(2 * q + 1, 2 * r - d, d, e - 1)
         ELSE f32_long_div(2 * q, 2 * r, d, e - 1)

\* a / b, b > 0.
f32_div(a, b) ==
    IF a.m = 0 THEN F32Zero
    ELSE f32_long_div(a.m \div b.m, a.m % b.m, b.m, a.e - b.e)

\* a * b: the 48-bit product of the mantissas from 12-bit limbs, as
\* hi * 2^24 + lo, rounded to 24 bits.
f32_mul(a, b) ==
    IF a.m = 0 \/ b.m = 0 THEN F32Zero
    ELSE LET ah == a.m \div 4096
             al == a.m % 4096
             bh == b.m \div 4096
             bl == b.m % 4096
             mid == ah * bl + al * bh
             losum == (mid % 4096) * 4096 + al * bl
             lo == losum % F32Limit
             hi == ah * bh + mid \div 4096 + losum \div F32Limit
         IN  IF hi >= F32Hidden
             THEN f32_round_pack(hi, lo, F32Limit, a.e + b.e + 24)
             ELSE f32_round_pack(2 * hi + lo \div F32Hidden, lo % F32Hidden,
                                 F32Hidden, a.e + b.e + 23)

\* a + b for a.e >= b.e, both non-zero.
f32_add_ordered(a, b) ==
    LET diff == a.e - b.e
    IN  IF diff >= 26 THEN a
        ELSE LET den == 2 ^ diff
                 sum == a.m + b.m \div den
                 rem == b.m % den
             IN  IF sum >= F32Limit
                 THEN f32_round_pack(sum \div 2, (sum % 2) * den + rem,
                                     2 * den, a.e + 1)
                 ELSE f32_round_pack(sum, rem, den, a.e)

\* a + b
f32_add(a, b) ==
    IF a.m = 0 THEN b
    ELSE IF b.m = 0 THEN a
    ELSE IF a.e >= b.e THEN f32_add_ordered(a, b)
    ELSE f32_add_ordered(b, a)

RECURSIVE f32_shrink(_, _, _, _)
\* The exact value (n + rem/den) * 2^e, n >= 2^23, rounded to 24 bits.
f32_shrink(n, rem, den, e) ==
    IF n < F32Limit THEN f32_round_pack(n, rem, den, e)
    ELSE f32_shrink(n \div 2, (n % 2) * den + rem, 2 * den, e + 1)

\* a - b for a >= b > 0 with a.e - b.e <= 7: the difference is formed
\* exactly at b's scale and rounded once.
f32_sub(a, b) ==
    LET n == a.m * (2 ^ (a.e - b.e)) - b.m
    IN  IF n = 0 THEN F32Zero
        ELSE IF n < F32Hidden THEN f32_normalize(n, b.e)
        ELSE f32_shrink(n, 0, 1, b.e)

\* f32::round of a non-negative value: to the nearest integer, halves away
\* from zero.
f32_round(x) ==
    IF x.e >= 0 THEN x.m * (2 ^ x.e)
    ELSE IF x.e < -30 THEN 0
    ELSE LET d == 2 ^ (0 - x.e)
         IN  IF 2 * (x.m % d) >= d THEN x.m \div d + 1 ELSE x.m \div d

\* `v as u8` of a non-negative integral float: saturating.
f32_as_u8(v) == IF v > U8Max THEN U8Max ELSE v

(***************************************************************************)
(* BC4 SNORM.                                                              *)
(***************************************************************************)
\* "exact f32 values of c0 and c1":
\* red.wrapping_add(128).saturating_sub(1) as f32 / 254.0 * 255.0
bc4_signed_exact(red) ==
    LET n == saturating_sub_u8(wrapping_add_u8(red, 128), 1)
    IN  f32_mul(f32_div(f32_from_int(n), f32_from_int(254)), f32_from_int(255))

\* interpolate(red0, red1, num / den) on f32 values red0, red1:
\* (red0 * (1.0 - blend) + red1 * blend).round() as u8
bc4_signed_interpolate(red0, red1, num, den) ==
    LET blend == f32_div(f32_from_int(num), f32_from_int(den))
        one_minus == f32_sub(f32_from_int(1), blend)
    IN  f32_as_u8(f32_round(f32_add(f32_mul(red0, one_minus),
                                    f32_mul(red1, blend))))

\* Faulty variant of bc4_signed_lut: the mode test compares the raw bytes.
bc4_signed_lut_raw(block_bytes) ==
    LET red0 == block_bytes[1]
        red1 == block_bytes[2]
        c0 == snorm8_to_unorm8(red0)
        c1 == snorm8_to_unorm8(red1)
        c0_f == bc4_signed_exact(red0)
        c1_f == bc4_signed_exact(red1)
    IN  IF red0 > red1
        THEN <<c0, c1,
               bc4_signed_interpolate(c0_f, c1_f, 1, 7),
               bc4_signed_interpolate(c0_f, c1_f, 2, 7),
               bc4_signed_interpolate(c0_f, c1_f, 3, 7),
               bc4_signed_interpolate(c0_f, c1_f, 4, 7),
               bc4_signed_interpolate(c0_f, c1_f, 5, 7),
               bc4_signed_interpolate(c0_f, c1_f, 6, 7)>>
        ELSE <<c0, c1,
               bc4_signed_interpolate(c0_f, c1_f, 1, 5),
               bc4_signed_interpolate(c0_f, c1_f, 2, 5),
               bc4_signed_interpolate(c0_f, c1_f, 3, 5),
               bc4_signed_interpolate(c0_f, c1_f, 4, 5),
               0, 255>>

\* The palette [c0, .., c7] of a BC4 SNORM block.
bc4_signed_lut(block_bytes) ==
    LET red0 == block_bytes[1]
        red1 == block_bytes[2]
        c0 == snorm8_to_unorm8(red0)
        c1 == snorm8_to_unorm8(red1)
        c0_f == bc4_signed_exact(red0)
        c1_f == bc4_signed_exact(red1)
    IN  IF c0 > c1
        THEN <<c0, c1,
               bc4_signed_interpolate(c0_f, c1_f, 1, 7),
               bc4_signed_interpolate(c0_f, c1_f, 2, 7),
               bc4_signed_interpolate(c0_f, c1_f, 3, 7),
               bc4_signed_interpolate(c0_f, c1_f, 4, 7),
               bc4_signed_interpolate(c0_f, c1_f, 5, 7),
               bc4_signed_interpolate(c0_f, c1_f, 6, 7)>>
        ELSE <<c0, c1,
               bc4_signed_interpolate(c0_f, c1_f, 1, 5),
               bc4_signed_interpolate(c0_f, c1_f, 2, 5),
               bc4_signed_interpolate(c0_f, c1_f, 3, 5),
               bc4_signed_interpolate(c0_f, c1_f, 4, 5),
               0, 255>>

\* lut[index as usize] panics when the index is out of bounds.
bc4_signed_panics(block_bytes) ==
    \E i \in 0..1, j \in 0..7 : bc4_index(block_bytes, i, j) >= Bc4LutLen

decode_bc4_signed_block(block_bytes) ==
    LET lut == bc4_signed_lut(block_bytes)
    IN  [k \in 1..16 |->
            <<lut[bc4_index(block_bytes, (k - 1) \div 8, (k - 1) % 8) + 1]>>]

(***************************************************************************)
(* BC2, BC3, BC5, BC7.                                                     *)
(***************************************************************************)
\* Faulty variant of bc2_alpha: the high nibble of each byte comes first.
bc2_alpha_high_first(alpha_bytes, i) ==
    LET alpha_byte_high == alpha_bytes[i * 2 + 1]
        alpha_byte_low == alpha_bytes[i * 2 + 2]
    IN  <<x4_to_x8(alpha_byte_high \div 16), x4_to_x8(alpha_byte_high % 16),
          x4_to_x8(alpha_byte_low \div 16), x4_to_x8(alpha_byte_low % 16)>>

\* The four alpha values of row i: the nibbles of alpha_bytes[i * 2] and
\* alpha_bytes[i * 2 + 1], low nibble first, each expanded to 8 bits.
bc2_alpha(alpha_bytes, i) ==
    LET alpha_byte_high == alpha_bytes[i * 2 + 1]
        alpha_byte_low == alpha_bytes[i * 2 + 2]
    IN  <<x4_to_x8(alpha_byte_high % 16), x4_to_x8(alpha_byte_high \div 16),
          x4_to_x8(alpha_byte_low % 16), x4_to_x8(alpha_byte_low \div 16)>>

bc2_panics(block_bytes) == bc1_panics(slice(block_bytes, 8, 16))

decode_bc2_block(block_bytes) ==
    LET alpha_bytes == slice(block_bytes, 0, 8)
        bc1_bytes == slice(block_bytes, 8, 16)
        bc1 == decode_bc1_block(bc1_bytes)
    IN  [k \in 1..16 |->
            [bc1[k] EXCEPT
                ![4] = bc2_alpha(alpha_bytes, (k - 1) \div 4)[((k - 1) % 4) + 1]]]

bc3_panics(block_bytes, checks) ==
    \/ bc1_panics(slice(block_bytes, 8, 16))
    \/ bc4_unsigned_panics(slice(block_bytes, 0, 8), checks)

\* Faulty variant of decode_bc3_block: the two halves are exchanged.
decode_bc3_block_swapped(block_bytes) ==
    LET alpha_bytes == slice(block_bytes, 8, 16)
        bc1_bytes == slice(block_bytes, 0, 8)
        bc1 == decode_bc1_block(bc1_bytes)
        alpha == decode_bc4_unsigned_block(alpha_bytes)
    IN  [k \in 1..16 |-> [bc1[k] EXCEPT ![4] = alpha[k][1]]]

decode_bc3_block(block_bytes) ==
    LET alpha_bytes == slice(block_bytes, 0, 8)
        bc1_bytes == slice(block_bytes, 8, 16)
        bc1 == decode_bc1_block(bc1_bytes)
        alpha == decode_bc4_unsigned_block(alpha_bytes)
    IN  [k \in 1..16 |-> [bc1[k] EXCEPT ![4] = alpha[k][1]]]

bc5_unsigned_panics(block_bytes, checks) ==
    \/ bc4_unsigned_panics(slice(block_bytes, 0, 8), checks)
    \/ bc4_unsigned_panics(slice(block_bytes, 8, 16), checks)

decode_bc5_unsigned_block(block_bytes) ==
    LET red == decode_bc4_unsigned_block(slice(block_bytes, 0, 8))
        green == decode_bc4_unsigned_block(slice(block_bytes, 8, 16))
    IN  [k \in 1..16 |-> <<red[k][1], green[k][1], 0>>]

bc5_signed_panics(block_bytes) ==
    \/ bc4_signed_panics(slice(block_bytes, 0, 8))
    \/ bc4_signed_panics(slice(block_bytes, 8, 16))

\* Faulty variant of decode_bc5_signed_block: the halves go through the
\* UNORM decoder.
decode_bc5_signed_block_unorm(block_bytes) ==
    LET red == decode_bc4_unsigned_block(slice(block_bytes, 0, 8))
        green == decode_bc4_unsigned_block(slice(block_bytes, 8, 16))
    IN  [k \in 1..16 |-> <<red[k][1], green[k][1], 128>>]

decode_bc5_signed_block(block_bytes) ==
    LET red == decode_bc4_signed_block(slice(block_bytes, 0, 8))
        green == decode_bc4_signed_block(slice(block_bytes, 8, 16))
    IN  [k \in 1..16 |-> <<red[k][1], green[k][1], 128>>]

\* Faulty variant of bc7_panics: the stub returns.
bc7_returns(block_bytes) == FALSE

\* todo!(): the call panics for every block.
bc7_panics(block_bytes) == TRUE

(***************************************************************************)
(* Input blocks.  A block is drawn from reference values near the ends and *)
(* the middle of the byte range, combined with index streams that put each *)
(* index value at each pixel.                                              *)
(***************************************************************************)
\* Reference bytes lie within RefRadius of 0, 127, 128 or 255.
RefRadius == 1

\* Bytes of the packed BC1 colours lie within ColorRadius of 0 or 255.
ColorRadius == 1

\* Index streams "pixel k has index (k + s) mod n" are taken for s in 0..MaxRamp.
MaxRamp == 1

Pixels == 0..15

RefBytes ==
    {b \in U8 : \E c \in {0, 127, 128, U8Max} :
                    b - c <= RefRadius /\ c - b <= RefRadius}

ColorBytes == {b \in U8 : b <= ColorRadius \/ U8Max - b <= ColorRadius}

\* Index streams over values 0..n-1, as functions of the pixel.
OneHot(n) == {[k \in Pixels |-> IF k = p THEN v ELSE 0] : p \in Pixels, v \in 1..(n - 1)}

Ramps(n) == {[k \in Pixels |-> (k + s) % n] : s \in 0..MaxRamp}

Flat(n) == {[k \in Pixels |-> n - 1]}

\* Sixteen 2-bit indices packed into 4 bytes, pixel 0 in the low bits of the
\* first byte.
pack2(idx) ==
    [q \in 1..4 |-> idx[4 * (q - 1)] + 4 * idx[4 * (q - 1) + 1]
                    + 16 * idx[4 * (q - 1) + 2] + 64 * idx[4 * (q - 1) + 3]]

\* Eight 3-bit indices (pixels 8g..8g+7) packed into 3 bytes.
pack3_group(idx, g) ==
    LET lo == idx[8 * g] + 8 * idx[8 * g + 1] + 64 * idx[8 * g + 2]
              + 512 * idx[8 * g + 3]
        hi == idx[8 * g + 4] + 8 * idx[8 * g + 5] + 64 * idx[8 * g + 6]
              + 512 * idx[8 * g + 7]
        w == lo + 4096 * hi
    IN  <<w % 256, (w \div 256) % 256, w \div 65536>>

pack3(idx) == pack3_group(idx, 0) \o pack3_group(idx, 1)

\* Sixteen 4-bit values packed into 8 bytes, even pixel in the low nibble.
pack4(idx) == [q \in 1..8 |-> idx[2 * (q - 1)] + 16 * idx[2 * (q - 1) + 1]]

FewColors == {<<1, 0, 0, 0>>, <<0, 0, 1, 0>>, <<0, 1, U8Max, 0>>, <<U8Max, 0, 0, 1>>,
              <<U8Max, U8Max, U8Max, U8Max>>}

FewRefs == {<<U8Max, 0>>, <<0, U8Max>>, <<128, 129>>, <<U8Max, U8Max>>}

Bc1Blocks ==
    {c \o pack2(i) : c \in ColorBytes \X ColorBytes \X ColorBytes \X ColorBytes,
                     i \in Ramps(4) \cup Flat(4)}
    \cup {c \o pack2(i) : c \in FewColors, i \in OneHot(4)}

Bc4Blocks ==
    {r \o pack3(i) : r \in RefBytes \X RefBytes, i \in Ramps(8) \cup Flat(8)}
    \cup {r \o pack3(i) : r \in FewRefs, i \in OneHot(8)}

AlphaBlocks == {pack4(i) : i \in Ramps(16) \cup OneHot(16)}

\* The 8-byte blocks: inputs of BC1 and of both BC4 decoders.
Blocks8 == Bc1Blocks \cup Bc4Blocks \cup AlphaBlocks

\* The halves the 16-byte blocks are put together from.
Halves ==
    {c \o pack2(i) : c \in FewColors, i \in Ramps(4) \cup Flat(4)}
    \cup {r \o pack3(i) : r \in FewRefs, i \in Ramps(8) \cup Flat(8)}
    \cup {pack4(i) : i \in Ramps(16)}

\* The 16-byte blocks: inputs of BC2, BC3, both BC5 decoders and BC7.
Blocks16 == {a \o b : a \in Halves, b \in Halves}

(***************************************************************************)
(* The state machine: a block is drawn, then one decoder is called on it.  *)
(***************************************************************************)
\* What a call leaves: a panic unwinds without a value, a return hands the
\* pixel array to the caller.
Call(panics, value) ==
    IF panics THEN [pc |-> "panicked", pixels |-> <<>>]
              ELSE [pc |-> "returned", pixels |-> value]

Init ==
    /\ block \in Blocks8 \cup Blocks16
    /\ overflow_checks \in BOOLEAN
    /\ fmt = "none"
    /\ pc = "ready"
    /\ pixels = <<>>

Decode(name, len, result) ==
    /\ pc = "ready"
    /\ Len(block) = len
    /\ fmt' = name
    /\ \E r \in {result} : pc' = r.pc /\ pixels' = r.pixels
    /\ UNCHANGED <<block, overflow_checks>>

DecodeBC1 ==
    Decode("bc1", 8, Call(bc1_panics(block), decode_bc1_block(block)))

DecodeBC2 ==
    Decode("bc2", 16, Call(bc2_panics(block), decode_bc2_block(block)))

DecodeBC3 ==
    Decode("bc3", 16, Call(bc3_panics(block, overflow_checks),
                           decode_bc3_block(block)))

DecodeBC4Unsigned ==
    Decode("bc4_unsigned", 8, Call(bc4_unsigned_panics(block, overflow_checks),
                                   decode_bc4_unsigned_block(block)))

DecodeBC4Signed ==
    Decode("bc4_signed", 8, Call(bc4_signed_panics(block),
                                 decode_bc4_signed_block(block)))

DecodeBC5Unsigned ==
    Decode("bc5_unsigned", 16, Call(bc5_unsigned_panics(block, overflow_checks),
                                    decode_bc5_unsigned_block(block)))

DecodeBC5Signed ==
    Decode("bc5_signed", 16, Call(bc5_signed_panics(block),
                                  decode_bc5_signed_block(block)))

DecodeBC7 ==
    Decode("bc7", 16, Call(bc7_panics(block), <<>>))

Next ==
    \/ DecodeBC1
    \/ DecodeBC2
    \/ DecodeBC3
    \/ DecodeBC4Unsigned
    \/ DecodeBC4Signed
    \/ DecodeBC5Unsigned
    \/ DecodeBC5Signed
    \/ DecodeBC7

Spec == Init /\ [][Next]_vars

(***************************************************************************)
(* The exhaustive run over the reference bytes of a BC4 UNORM block: every *)
(* pair (c0, c1), with an index stream that shows every palette entry.     *)
(***************************************************************************)
RefsIdx == [k \in Pixels |-> k % 8]

InitRefs ==
    /\ block \in {<<c0, c1>> \o pack3(RefsIdx) : c0 \in U8, c1 \in U8}
    /\ overflow_checks \in BOOLEAN
    /\ fmt = "none"
    /\ pc = "ready"
    /\ pixels = <<>>

SpecRefs == InitRefs /\ [][DecodeBC4Unsigned]_vars

(***************************************************************************)
(* The run over the reference bytes of a BC4 SNORM block: every byte in    *)
(* either position against the bytes of RefBytes in the other.             *)
(***************************************************************************)
InitSignedRefs ==
    /\ block \in {r \o pack3(RefsIdx) : r \in (U8 \X RefBytes) \cup (RefBytes \X U8)}
    /\ overflow_checks \in BOOLEAN
    /\ fmt = "none"
    /\ pc = "ready"
    /\ pixels = <<>>

SpecSignedRefs == InitSignedRefs /\ [][DecodeBC4Signed]_vars

(***************************************************************************)
(* Vocabulary of the properties.                                           *)
(***************************************************************************)
\* Bit n of the little-endian integer formed from a byte sequence.
BitAt(bytes, n) == (bytes[(n \div 8) + 1] \div (2 ^ (n % 8))) % 2

\* The 2-bit field at bits n, n+1.
Field2(bytes, n) == BitAt(bytes, n) + 2 * BitAt(bytes, n + 1)

\* The 3-bit field at bits n..n+2.
Field3(bytes, n) ==
    BitAt(bytes, n) + 2 * BitAt(bytes, n + 1) + 4 * BitAt(bytes, n + 2)

Returned(name) == fmt = name /\ pc = "returned"

Color0 == block[1] + 256 * block[2]

Color1 == block[3] + 256 * block[4]

\* The palette index the index stream of a BC1 block gives pixel k.
Bc1Idx(k) == Field2(SubSeq(block, 5, 8), 2 * k)

\* v = floor(n / d + 1/2)
IsRoundHalfUp(v, n, d) == 2 * d * v <= 2 * n + d /\ 2 * n + d < 2 * d * (v + 1)

(***************************************************************************)
(* C1.  BC1 picks the mode from color0 and color1 as raw little-endian     *)
(* 16-bit integers: color0 > color1 gives the 4-colour palette (entries 2  *)
(* and 3 the 1/3 and 2/3 blends, alpha 255), color0 <= color1 the 3-colour *)
(* palette (entry 2 the 1/2 blend, entry 3 = [0,0,0,0]); with color0 =     *)
(* color1 every pixel of index 3 is [0,0,0,0].                             *)
(***************************************************************************)
C1_ModeByRawOrder ==
    fmt = "bc1" =>
        /\ pc = "returned"
        /\ LET c0 == B5G6R5_from_u16(Color0)
               c1 == B5G6R5_from_u16(Color1)
           IN  \A k \in Pixels :
                   IF Color0 > Color1
                   THEN /\ Bc1Idx(k) = 2 => pixels[k + 1] = blend_rgba8(c0, c1, 1, 3)
                        /\ Bc1Idx(k) = 3 => pixels[k + 1] = blend_rgba8(c0, c1, 2, 3)
                        /\ pixels[k + 1][4] = 255
                   ELSE /\ Bc1Idx(k) = 2 => pixels[k + 1] = blend_rgba8(c0, c1, 1, 2)
                        /\ Bc1Idx(k) = 3 => pixels[k + 1] = <<0, 0, 0, 0>>
                        /\ Bc1Idx(k) # 3 => pixels[k + 1][4] = 255

\* Equal, non-zero colours: the 3-colour mode, and a pixel of index 3 that
\* is transparent black.
C1_Witness ==
    /\ Returned("bc1")
    /\ Color0 = Color1
    /\ Color0 > 0
    /\ \E k \in Pixels : Bc1Idx(k) = 3 /\ pixels[k + 1] = <<0, 0, 0, 0>>
    /\ \E k \in Pixels : Bc1Idx(k) = 2 /\ pixels[k + 1] = pixels[1]

(***************************************************************************)
(* C9.  Pixel i of BC1 is palette[idx], idx the 2-bit field at bits 2i,    *)
(* 2i+1 of the little-endian integer of bytes 4..7; palette[0] and         *)
(* palette[1] are color0 and color1 expanded, alpha 255; bytes 0..3 reach  *)
(* the output only through the palette.                                    *)
(***************************************************************************)
C9_Bc1IndexStream ==
    fmt = "bc1" =>
        /\ pc = "returned"
        /\ LET lut == bc1_lut(SubSeq(block, 1, 4) \o <<0, 0, 0, 0>>)
           IN  /\ lut[1] = to_rgba8(B5G6R5_from_u16(Color0))
               /\ lut[2] = to_rgba8(B5G6R5_from_u16(Color1))
               /\ lut[1][4] = 255 /\ lut[2][4] = 255
               /\ \A i \in Pixels : pixels[i + 1] = lut[Bc1Idx(i) + 1]

\* Pixel 15 alone has index 3, from the two top bits of byte 7, and shows a
\* colour no other pixel has.
C9_Witness ==
    /\ Returned("bc1")
    /\ block[8] = 192
    /\ Bc1Idx(15) = 3
    /\ \A i \in 0..14 : pixels[i + 1] # pixels[16]

(***************************************************************************)
(* C10.  Pixel 8g+j of either BC4 decoder is palette[idx], idx the 3-bit   *)
(* field at bits 3j..3j+2 of the 24-bit little-endian integer of bytes     *)
(* 2..4 (g = 0) or 5..7 (g = 1); all 16 pixels are assigned and every      *)
(* index is within the palette.                                            *)
(***************************************************************************)
Bc4Idx(g, j) == Field3(SubSeq(block, 3 + 3 * g, 5 + 3 * g), 3 * j)

C10_Bc4IndexStream ==
    /\ fmt = "bc4_unsigned" =>
          /\ pc = "returned"
          /\ Len(pixels) = 16
          /\ LET lut == bc4_unsigned_lut(block)
             IN  \A g \in 0..1, j \in 0..7 :
                     pixels[8 * g + j + 1] = <<lut[Bc4Idx(g, j) + 1]>>
    /\ fmt = "bc4_signed" =>
          /\ pc = "returned"
          /\ Len(pixels) = 16
          /\ LET lut == bc4_signed_lut(block)
             IN  \A g \in 0..1, j \in 0..7 :
                     pixels[8 * g + j + 1] = <<lut[Bc4Idx(g, j) + 1]>>

\* Pixel 10 alone has index 7, from a field that straddles bytes 5 and 6,
\* and shows a value no other pixel has.
C10_Witness ==
    /\ Returned("bc4_signed")
    /\ block[6] = 192 /\ block[7] = 1
    /\ Bc4Idx(1, 2) = 7
    /\ \A k \in Pixels \ {10} : pixels[k + 1] # pixels[11]

(***************************************************************************)
(* C2.  The palette of BC4 UNORM is [c0, c1, e2..e7]: for c0 > c1,         *)
(* e(1+f) = floor((c0*(7-f) + c1*f)/7 + 1/2), f = 1..6; otherwise          *)
(* e(1+f) = floor((c0*(5-f) + c1*f)/5 + 1/2), f = 1..4, e6 = 0, e7 = 255.  *)
(* The u16 intermediate stays within 65535 and the quotient within 255, so *)
(* nothing wraps, truncates or panics.                                     *)
(***************************************************************************)
C2_UnsignedPalette ==
    fmt = "bc4_unsigned" =>
        /\ pc = "returned"
        /\ LET c0 == block[1]
               c1 == block[2]
               d == IF c0 > c1 THEN 7 ELSE 5
               lut == bc4_unsigned_lut(block)
           IN  /\ lut[1] = c0
               /\ lut[2] = c1
               /\ \A f \in 1..(d - 1) :
                     /\ IsRoundHalfUp(lut[2 + f], c0 * (d - f) + c1 * f, d)
                     /\ bc4_unsigned_numerator(c0, c1, f, d) <= U16Max
                     /\ bc4_unsigned_numerator(c0, c1, f, d) \div (2 * d) <= U8Max
               /\ c0 <= c1 => lut[7] = 0 /\ lut[8] = 255
               /\ \A g \in 0..1, j \in 0..7 :
                      Bc4Idx(g, j) >= 2 /\ (c0 > c1 \/ Bc4Idx(g, j) < 6) =>
                          IsRoundHalfUp(pixels[8 * g + j + 1][1],
                                        c0 * (d - (Bc4Idx(g, j) - 1))
                                        + c1 * (Bc4Idx(g, j) - 1), d)

\* The largest intermediate: both references 255, under overflow checks.
C2_Witness ==
    /\ Returned("bc4_unsigned")
    /\ overflow_checks
    /\ block[1] = U8Max /\ block[2] = U8Max
    /\ bc4_unsigned_numerator(U8Max, U8Max, 1, 5) = 2555
    /\ pixels[3] = <<U8Max>>

(***************************************************************************)
(* C3 (as amended).  Every interpolated palette value of BC4 UNORM is      *)
(* (ref0*(D-f)*2 + ref1*f*2 + D) / (2*D) in integer arithmetic, that is    *)
(* round((ref0*(D-f) + ref1*f)/D), half up, with D = 7 in the 6-way mode   *)
(* and D = 5 in the 4-way mode; for references (255, 0) the values at      *)
(* indices 2..7 are round(255*(7-k)/7), k = 1..6.                          *)
(***************************************************************************)
C3_UnsignedRounding ==
    fmt = "bc4_unsigned" =>
        LET ref0 == block[1]
            ref1 == block[2]
            D == IF ref0 > ref1 THEN 7 ELSE 5
            lut == bc4_unsigned_lut(block)
        IN  /\ \A f \in 1..(D - 1) :
                  lut[2 + f] = (ref0 * (D - f) * 2 + ref1 * f * 2 + D) \div (2 * D)
            /\ ref0 = 255 /\ ref1 = 0 =>
                  /\ \A k \in 1..6 : lut[2 + k] = (2 * 255 * (7 - k) + 7) \div 14
                  /\ SubSeq(lut, 3, 8) = <<219, 182, 146, 109, 73, 36>>
                  /\ \A k \in 1..6 : pixels[2 + k] = <<lut[2 + k]>>

C3_Witness ==
    /\ Returned("bc4_unsigned")
    /\ block[1] = 255 /\ block[2] = 0
    /\ pixels[3] = <<219>> /\ pixels[8] = <<36>>

(***************************************************************************)
(* C3 as stated: the divisor is D - 1 and the weights are D-1-f and f,     *)
(* with D = 7 or 5; for (255, 0) the values at indices 2..7 are            *)
(* round(255*(6-k)/6), k = 1..6.                                           *)
(***************************************************************************)
C3_AsStated ==
    fmt = "bc4_unsigned" =>
        LET ref0 == block[1]
            ref1 == block[2]
            D == IF ref0 > ref1 THEN 7 ELSE 5
            lut == bc4_unsigned_lut(block)
        IN  /\ \A f \in 1..(D - 1) :
                  lut[2 + f] = (ref0 * (D - 1 - f) * 2 + ref1 * f * 2 + (D - 1))
                               \div (2 * (D - 1))
            /\ ref0 = 255 /\ ref1 = 0 =>
                  \A k \in 1..6 : lut[2 + k] = (2 * 255 * (6 - k) + 6) \div 12

(***************************************************************************)
(* C4.  Pixel k of BC3 has the R, G, B of pixel k of BC1 on bytes 8..15    *)
(* (also in the 3-colour mode of BC1) and, as alpha, the value of pixel k  *)
(* of BC4 UNORM on bytes 0..7; an alpha half of eight 0xFF bytes gives     *)
(* alpha 255 on all 16 pixels.                                             *)
(***************************************************************************)
FirstHalf == SubSeq(block, 1, 8)

SecondHalf == SubSeq(block, 9, 16)

C4_Bc3Composition ==
    fmt = "bc3" =>
        /\ pc = "returned"
        /\ Len(pixels) = 16
        /\ LET color == decode_bc1_block(SecondHalf)
               alpha == decode_bc4_unsigned_block(FirstHalf)
           IN  \A k \in 1..16 :
                   pixels[k] = <<color[k][1], color[k][2], color[k][3], alpha[k][1]>>
        /\ (\A n \in 1..8 : block[n] = 255) => \A k \in 1..16 : pixels[k][4] = 255

\* The alpha half is all 0xFF and the colour half is in the 3-colour mode
\* with a pixel of index 3: transparent black in BC1, opaque black here.
C4_Witness ==
    /\ Returned("bc3")
    /\ \A n \in 1..8 : block[n] = 255
    /\ u16_from_le_bytes(block[9], block[10]) < u16_from_le_bytes(block[11], block[12])
    /\ \E k \in 1..16 : /\ decode_bc1_block(SecondHalf)[k] = <<0, 0, 0, 0>>
                        /\ pixels[k] = <<0, 0, 0, 255>>
    /\ \E k \in 1..16 : pixels[k][1] # 0

(***************************************************************************)
(* C5.  Pixel k of BC2 has alpha n * 17, n the low nibble of byte          *)
(* floor(k/2) for even k and the high nibble for odd k, and the R, G, B of *)
(* pixel k of BC1 on bytes 8..15.                                          *)
(***************************************************************************)
Nibble(k) ==
    IF k % 2 = 0 THEN block[(k \div 2) + 1] % 16 ELSE block[(k \div 2) + 1] \div 16

C5_Bc2Alpha ==
    fmt = "bc2" =>
        /\ pc = "returned"
        /\ Len(pixels) = 16
        /\ LET color == decode_bc1_block(SecondHalf)
           IN  \A k \in Pixels :
                   pixels[k + 1] = <<color[k + 1][1], color[k + 1][2],
                                     color[k + 1][3], Nibble(k) * 17>>

\* Sixteen different nibbles: every pixel has an alpha of its own.
C5_Witness ==
    /\ Returned("bc2")
    /\ \A k \in Pixels : Nibble(k) = k
    /\ \A k \in Pixels : pixels[k + 1][4] = 17 * k
    /\ \E k \in Pixels : pixels[k + 1][1] # pixels[1][1]

(***************************************************************************)
(* C6.  Pixel k of BC5 UNORM is [BC4 UNORM of bytes 0..7, BC4 UNORM of     *)
(* bytes 8..15, 0] and of BC5 SNORM [BC4 SNORM of bytes 0..7, BC4 SNORM of *)
(* bytes 8..15, 128]; channel 0 does not depend on bytes 8..15 nor channel *)
(* 1 on bytes 0..7.                                                        *)
(***************************************************************************)
OtherHalves ==
    {pack4([k \in Pixels |-> k]), <<U8Max, 0>> \o pack3([k \in Pixels |-> 7 - (k % 8)])}

Channels(name) ==
    CASE name \in {"bc1", "bc2", "bc3"} -> 4
      [] name \in {"bc4_unsigned", "bc4_signed"} -> 1
      [] OTHER -> 3

C7_OnlyBc7Fails ==
    /\ fmt = "bc7" => pc = "panicked" /\ pixels = <<>>
    /\ fmt \notin {"none", "bc7"} =>
          /\ pc = "returned"
          /\ Len(pixels) = 16
          /\ \A k \in 1..16 : /\ Len(pixels[k]) = Channels(fmt)
                              /\ \A c \in 1..Channels(fmt) : pixels[k][c] \in U8

C7_Witness == fmt = "bc7" /\ pc = "panicked" /\ Len(block) = 16 /\ pixels = <<>>

(***************************************************************************)
(* C8.  The palette of BC4 SNORM starts with u(b0), u(b1), where           *)
(* u(b) = round((clamp(s,-127,127)+127)*255/254) for b read as a signed    *)
(* byte s (u(0) = 128, u(127) = 255, u(129) = 0, u(128) = 0); the 6-way    *)
(* mode is used iff u(b0) > u(b1), otherwise the 4-way mode with entries   *)
(* 6, 7 = 0, 255; the reference bytes 0x80 and 0x81 are interchangeable.   *)
(***************************************************************************)
Signed(b) == IF b >= 128 THEN b - 256 ELSE b

Clamp(s, lo, hi) == IF s < lo THEN lo ELSE IF s > hi THEN hi ELSE s

\* u(b), as the integer v with v = floor(x + 1/2), x = (clamp+127)*255/254.
u(b) == CHOOSE v \in U8 : IsRoundHalfUp(v, (Clamp(Signed(b), -127, 127) + 127) * 255, 254)

\* The reference byte with 0x80 and 0x81 exchanged.
Exchange(b) == IF b = 128 THEN 129 ELSE IF b = 129 THEN 128 ELSE b

\* e1 >= e2 >= .. for a sequence.
Descending(q) == \A n \in 1..(Len(q) - 1) : q[n] >= q[n + 1]

C8_SignedPalette ==
    fmt = "bc4_signed" =>
        /\ pc = "returned"
        /\ u(0) = 128 /\ u(127) = 255 /\ u(129) = 0 /\ u(128) = 0
        /\ LET b0 == block[1]
               b1 == block[2]
               u0 == u(b0)
               u1 == u(b1)
               lut == bc4_signed_lut(block)
           IN  /\ lut[1] = u0
               /\ lut[2] = u1
               /\ IF u0 > u1
                  THEN /\ Descending(<<lut[1], lut[3], lut[4], lut[5], lut[6],
                                       lut[7], lut[8], lut[2]>>)
                       /\ lut[8] # 255
                  ELSE /\ Descending(<<lut[2], lut[6], lut[5], lut[4], lut[3], lut[1]>>)
                       /\ lut[7] = 0
                       /\ lut[8] = 255
               /\ \A g \in 0..1, j \in 0..7 :
                      /\ Bc4Idx(g, j) = 0 => pixels[8 * g + j + 1] = <<u0>>
                      /\ Bc4Idx(g, j) = 1 => pixels[8 * g + j + 1] = <<u1>>
                      /\ Bc4Idx(g, j) = 6 /\ u0 <= u1 => pixels[8 * g + j + 1] = <<0>>
                      /\ Bc4Idx(g, j) = 7 /\ u0 <= u1 => pixels[8 * g + j + 1] = <<255>>
               /\ b0 \in {128, 129} =>
                      decode_bc4_signed_block([block EXCEPT ![1] = Exchange(b0)]) = pixels
               /\ b1 \in {128, 129} =>
                      decode_bc4_signed_block([block EXCEPT ![2] = Exchange(b1)]) = pixels

\* References 0x81, 0x80: the raw bytes are in descending order, their
\* values are equal, and the 4-way mode shows in a pixel of index 7.
C8_Witness ==
    /\ Returned("bc4_signed")
    /\ block[1] = 129 /\ block[2] = 128
    /\ \E g \in 0..1, j \in 0..7 : Bc4Idx(g, j) = 7 /\ pixels[8 * g + j + 1] = <<255>>
    /\ \E g \in 0..1, j \in 0..7 : Bc4Idx(g, j) = 0 /\ pixels[8 * g + j + 1] = <<0>>

====
